---- MODULE Spec2Model ----
(***************************************************************************)
(* State-machine model of vehicle_info.py: identifier validation, the      *)
(* provider call, response normalisation, report rendering and the         *)
(* optional report file, as driven by main().                              *)
(*                                                                         *)
(* Python values are records [t, s, items]: t is the Python type, s the    *)
(* text of a str/number, items the (key, value) pairs of a dict in         *)
(* iteration order (or the elements of a list).  Strings that the program  *)
(* inspects character by character (the vehicle number) are sequences of   *)
(* one-character strings.                                                  *)
(***************************************************************************)
EXTENDS Integers, Sequences, FiniteSets, TLC

(***************************************************************************)
(* Bounds of the model.                                                    *)
(***************************************************************************)
MaxRep == 3            \* longest run of letters / digits in a generated number
MaxFields == 3         \* most fields in a generated record
MaxRuns == 2           \* invocations of the program, one after another
MaxClock == 3          \* last clock tick
TicksPerSecond == 2    \* clock ticks per wall-clock second

(***************************************************************************)
(* Python values.                                                          *)
(***************************************************************************)
None == [t |-> "null", s |-> "", items |-> <<>>]
PyStr(x) == [t |-> "str", s |-> x, items |-> <<>>]
\* a str kept as its characters (a vehicle number): they are in items
PyChars(cs) == [t |-> "str", s |-> "", items |-> cs]
PyNum(x) == [t |-> "num", s |-> x, items |-> <<>>]
PyList(xs) == [t |-> "list", s |-> "", items |-> xs]
PyDict(xs) == [t |-> "dict", s |-> "", items |-> xs]

IsDict(v) == v.t = "dict"
HasKey(d, k) == \E i \in 1..Len(d.items) : d.items[i][1] = k
Lookup(d, k) == d.items[CHOOSE i \in 1..Len(d.items) : d.items[i][1] = k][2]
DictGet(d, k) == IF HasKey(d, k) THEN Lookup(d, k) ELSE None
\* truth value of a Python object, as tested by `if x:` / `not x`
Truthy(v) ==
    CASE v.t = "null" -> FALSE
      [] v.t = "str" -> v.s # "" \/ v.items # <<>>
      [] v.t = "num" -> v.s # "0"
      [] OTHER -> Len(v.items) > 0
\* str(value), as interpolated by an f-string
StrOf(v) ==
    CASE v.t = "null" -> "None"
      [] v.t = "str" -> v.s
      [] v.t = "num" -> v.s
      [] v.t = "list" -> IF Len(v.items) = 0 THEN "[]" ELSE "[...]"
      [] OTHER -> IF Len(v.items) = 0 THEN "{}" ELSE "{...}"

(***************************************************************************)
(* Configuration.                                                          *)
(***************************************************************************)
REPORTS_DIR == "reports"

(***************************************************************************)
(* validate_vehicle_number                                                 *)
(***************************************************************************)
LowerLetters ==
    <<"a","b","c","d","e","f","g","h","i","j","k","l","m",
      "n","o","p","q","r","s","t","u","v","w","x","y","z">>
UpperLetters ==
    <<"A","B","C","D","E","F","G","H","I","J","K","L","M",
      "N","O","P","Q","R","S","T","U","V","W","X","Y","Z">>
AZ == {UpperLetters[i] : i \in 1..Len(UpperLetters)}
Digits == {"0","1","2","3","4","5","6","7","8","9"}
Whitespace == {" ", "\n", "\t"}

UpperChar(c) ==
    IF \E i \in 1..Len(LowerLetters) : LowerLetters[i] = c
    THEN UpperLetters[CHOOSE i \in 1..Len(LowerLetters) : LowerLetters[i] = c]
    ELSE c
\* str.upper()
upper(str) == [i \in 1..Len(str) |-> UpperChar(str[i])]

\* n characters of str from position from, all in class
RunOf(str, from, n, class) ==
    /\ from + n - 1 <= Len(str)
    /\ \A i \in from..(from + n - 1) : str[i] \in class
\* `$` without re.MULTILINE: the end of the string, or just before a newline
\* that is the last character
DollarAt(str, pos) ==
    \/ pos = Len(str) + 1
    \/ pos = Len(str) /\ str[pos] = "\n"
\* re.match(r'^[A-Z]{2}[0-9]{1,2}[A-Z]{1,2}[0-9]{4}$', str) is not None
PatternMatch(str) ==
    \E n1 \in 1..2, n2 \in 1..2 :
        /\ RunOf(str, 1, 2, AZ)
        /\ RunOf(str, 3, n1, Digits)
        /\ RunOf(str, 3 + n1, n2, AZ)
        /\ RunOf(str, 3 + n1 + n2, 4, Digits)
        /\ DollarAt(str, 3 + n1 + n2 + 4)

validate_vehicle_number(number) == PatternMatch(upper(number))

(***************************************************************************)
(* extract_vehicle_data: the pair (data, error) it returns, and the line   *)
(* of the return statement taken.                                          *)
(***************************************************************************)
extract_ErrorAfterStatus(api_response) ==
    IF IsDict(api_response)
    THEN IF /\ DictGet(api_response, "status") = PyStr("success")
            /\ HasKey(api_response, "response")
         THEN [data |-> Lookup(api_response, "response"), error |-> None, line |-> 98]
         ELSE IF HasKey(api_response, "error")
         THEN [data |-> None, error |-> Lookup(api_response, "error"), line |-> 96]
         ELSE IF HasKey(api_response, "license_plate") \/ HasKey(api_response, "owner_name")
         THEN [data |-> api_response, error |-> None, line |-> 100]
         ELSE [data |-> None, error |-> PyStr("Unknown response format"), line |-> 101]
    ELSE [data |-> None, error |-> PyStr("Response is not a dictionary"), line |-> 102]

extract_vehicle_data(api_response) ==
    IF IsDict(api_response)
    THEN IF HasKey(api_response, "error")
         THEN [data |-> None, error |-> Lookup(api_response, "error"), line |-> 96]
         ELSE IF /\ DictGet(api_response, "status") = PyStr("success")
                 /\ HasKey(api_response, "response")
         THEN [data |-> Lookup(api_response, "response"), error |-> None, line |-> 98]
         ELSE IF HasKey(api_response, "license_plate") \/ HasKey(api_response, "owner_name")
         THEN [data |-> api_response, error |-> None, line |-> 100]
         ELSE [data |-> None, error |-> PyStr("Unknown response format"), line |-> 101]
    ELSE [data |-> None, error |-> PyStr("Response is not a dictionary"), line |-> 102]

(***************************************************************************)
(* demo_data                                                               *)
(***************************************************************************)
demo_data(vehicle_no) ==
    PyDict(<< <<"license_plate", PyChars(upper(vehicle_no))>>,
              <<"owner_name", PyStr("DEMO OWNER")>>,
              <<"registration_date", PyStr("01-01-2020")>>,
              <<"class", PyStr("Motor Car")>>,
              <<"fuel_type", PyStr("Petrol")>>,
              <<"engine_number", PyStr("DEMO12345")>>,
              <<"chassis_number", PyStr("DEMO67890")>>,
              <<"maker_model", PyStr("Maruti Suzuki Swift")>>,
              <<"insurance_expiry", PyStr("31-12-2024")>>,
              <<"fit_up_to", PyStr("31-12-2025")>>,
              <<"rc_status", PyStr("Active")>>,
              <<"_note", PyStr("This is demo data - API not used.")>> >>)

(***************************************************************************)
(* format_vehicle_text: the lines it joins.  A line is [kind, label,       *)
(* text]: a rule, the title carrying the source, or one field line.        *)
(***************************************************************************)
field_labels ==
    << <<"license_plate", "Registration No">>, <<"owner_name", "Owner Name">>,
       <<"father_name", "Father's Name">>, <<"registration_date", "Registration Date">>,
       <<"class", "Vehicle Class">>, <<"fuel_type", "Fuel Type">>,
       <<"engine_number", "Engine No">>, <<"chassis_number", "Chassis No">>,
       <<"brand_name", "Make">>, <<"brand_model", "Model">>, <<"maker_model", "Model">>,
       <<"insurance_expiry", "Insurance Upto">>, <<"insurance_company", "Insurance Co">>,
       <<"insurance_policy", "Policy No">>, <<"fit_up_to", "Fitness Upto">>,
       <<"tax_upto", "Tax Upto">>, <<"rc_status", "RC Status">>, <<"color", "Colour">>,
       <<"norms", "Emission Norms">>, <<"seating_capacity", "Seating">>,
       <<"cubic_capacity", "Engine CC">>, <<"cylinders", "Cylinders">>,
       <<"vehicle_age", "Vehicle Age">>, <<"pucc_upto", "PUCC Upto">>,
       <<"pucc_number", "PUCC No">>, <<"noc_details", "NOC Details">>,
       <<"present_address", "Present Address">>,
       <<"permanent_address", "Permanent Address">>, <<"financer", "Financer">>,
       <<"is_financed", "Financed">>, <<"owner_count", "Owner Count">>,
       <<"blacklist_status", "Blacklist Status">>,
       <<"national_permit_number", "National Permit No">>,
       <<"national_permit_upto", "National Permit Upto">>,
       <<"permit_number", "Permit No">>, <<"permit_issue_date", "Permit Issue Date">>,
       <<"permit_valid_upto", "Permit Valid Upto">>, <<"permit_type", "Permit Type">>,
       <<"sleeper_capacity", "Sleeper Capacity">>,
       <<"standing_capacity", "Standing Capacity">>, <<"gross_weight", "Gross Weight">>,
       <<"unladen_weight", "Unladen Weight">>, <<"wheelbase", "Wheelbase">>,
       <<"body_type", "Body Type">>, <<"note", "Note">>, <<"_note", "Note">> >>

\* key.replace('_', ' ').title(), tabulated for the keys of the model that
\* field_labels does not hold
TitleOf(key) ==
    CASE key = "id" -> "Id"
      [] key = "createdAt" -> "Createdat"
      [] key = "updatedAt" -> "Updatedat"
      [] key = "vehicleId" -> "Vehicleid"
      [] key = "source" -> "Source"
      [] key = "latest_by" -> "Latest By"
      [] key = "vehicle_type" -> "Vehicle Type"
      [] key = "status" -> "Status"
      [] key = "response" -> "Response"
      [] key = "message" -> "Message"
      [] OTHER -> key

\* field_labels.get(key, key.replace('_', ' ').title())
LabelOf(key) ==
    IF \E i \in 1..Len(field_labels) : field_labels[i][1] = key
    THEN field_labels[CHOOSE i \in 1..Len(field_labels) : field_labels[i][1] = key][2]
    ELSE TitleOf(key)

IsBookkeeping(key) ==
    key \in {"id", "createdAt", "updatedAt", "vehicleId", "source", "latest_by"}

IsAbsent_NoNA(value) ==
    \/ value.t = "null"
    \/ value.t = "str" /\ value.items = <<>> /\ value.s \in {"", "null", "Not Available"}

\* value in [None, "", "null", "NA", "Not Available"]
IsAbsent(value) ==
    \/ value.t = "null"
    \/ value.t = "str" /\ value.items = <<>> /\ value.s \in {"", "null", "NA", "Not Available"}

RuleLine == [kind |-> "rule", label |-> "", text |-> ""]
TitleLine(source) == [kind |-> "title", label |-> "", text |-> source]
\* f"  {label:<25}: {value}"; the text is a sequence: the characters of a str
\* kept as characters, else the one piece str(value)
FieldLine(key, value) ==
    [kind |-> "field", label |-> LabelOf(key),
     text |-> IF value.t = "str" /\ value.items # <<>> THEN value.items ELSE <<StrOf(value)>>]

\* the loop over vehicle_data.items(), from item i on, appending to lines
RECURSIVE FormatLoop(_, _, _)
FormatLoop(pairs, i, lines) ==
    IF i > Len(pairs) THEN lines
    ELSE LET key == pairs[i][1]
             value == pairs[i][2]
         IN IF IsBookkeeping(key) THEN FormatLoop(pairs, i + 1, lines)
            ELSE IF IsAbsent(value) THEN FormatLoop(pairs, i + 1, lines)
            ELSE FormatLoop(pairs, i + 1, Append(lines, FieldLine(key, value)))

format_vehicle_text(vehicle_data, source) ==
    Append(FormatLoop(vehicle_data.items, 1, <<RuleLine, TitleLine(source), RuleLine>>),
           RuleLine)

(***************************************************************************)
(* State.  arg, ret, called: one call of a function on its own (the input, *)
(* the value returned, whether the call was made).  The rest is main():    *)
(* the process (pc and its locals), its environment, and the reports       *)
(* directory, which outlives the process.                                  *)
(***************************************************************************)
VARIABLES arg, ret, called,
          pc, run, RAPIDAPI_KEY, argv, save_output, vehicle_no, api_response,
          extracted, vehicle_data, error, output_text, source_type, displayed,
          full_output, exit_status, exc, io_error, requests,
          dir_exists, files, writes, clock

callVars == <<arg, ret, called>>
procVars == <<pc, RAPIDAPI_KEY, argv, save_output, vehicle_no, api_response,
              extracted, vehicle_data, error, output_text, source_type, displayed,
              full_output, exit_status, exc, io_error, requests>>
diskVars == <<dir_exists, files, writes>>
vars == <<callVars, procVars, diskVars, run, clock>>

NoReport == [generated |-> 0, vehicle |-> <<>>, source |-> "", report |-> <<>>]
NoResult == [data |-> None, error |-> None, line |-> 0]

\* a process that has not started yet
ProcInit ==
    /\ pc = "boot"
    /\ RAPIDAPI_KEY = None
    /\ argv = <<>>
    /\ save_output = FALSE
    /\ vehicle_no = <<>>
    /\ api_response = None
    /\ extracted = NoResult
    /\ vehicle_data = None
    /\ error = None
    /\ output_text = <<>>
    /\ source_type = ""
    /\ displayed = <<>>
    /\ full_output = NoReport
    /\ exit_status = -1
    /\ exc = "none"
    /\ io_error = "none"
    /\ requests = <<>>

\* main() is not running: nothing of it moves
Idle ==
    /\ ProcInit
    /\ run = 1
    /\ clock = 0
    /\ dir_exists = FALSE
    /\ files = {}
    /\ writes = {}

(***************************************************************************)
(* validate_vehicle_number on its own.                                     *)
(***************************************************************************)
Rep(c, n) == [i \in 1..n |-> c]

\* strings around the pattern: runs of letters and digits of every length near
\* the pattern's, in either case, with and without text before, inside and after
ValidateInputs ==
    { lead \o Rep(l1, a) \o Rep("2", b) \o mid \o Rep(l2, c) \o Rep("7", d) \o tail :
        lead \in {<<>>, <<" ">>},
        l1 \in {"M", "h"},
        a \in 1..MaxRep,
        b \in 0..MaxRep,
        mid \in {<<>>, <<" ">>},
        l2 \in {"F", "b"},
        c \in 0..MaxRep,
        d \in 3..(MaxRep + 2),
        tail \in {<<>>, <<"\n">>, <<" ">>, <<"X">>, <<"\n", "\n">>} }

InitValidate ==
    /\ arg \in ValidateInputs
    /\ ret = FALSE
    /\ called = FALSE
    /\ Idle

CallValidate ==
    /\ ~called
    /\ ret' = validate_vehicle_number(arg)
    /\ called' = TRUE
    /\ UNCHANGED <<arg, procVars, diskVars, run, clock>>

NextValidate == CallValidate

SpecValidate == InitValidate /\ [][NextValidate]_vars

(***************************************************************************)
(* extract_vehicle_data on its own.                                        *)
(***************************************************************************)
\* every dict over keys, in that order, each key absent or holding one of vals
RECURSIVE DictsOver(_, _)
DictsOver(keys, vals) ==
    IF keys = <<>> THEN {<<>>}
    ELSE LET rest == DictsOver(Tail(keys), vals)
         IN rest \cup {<< <<Head(keys), v>> >> \o r : v \in vals, r \in rest}

ResponseValues ==
    { None, PyStr("success"), PyStr("failed"), PyStr("Unknown response format"),
      PyNum("0"), PyDict(<<>>), PyDict(<< <<"owner_name", PyStr("JOHN DOE")>> >>) }

ExtractInputs ==
    { None, PyStr("Bad Gateway"), PyNum("7"), PyList(<<>>),
      PyList(<< <<"0", PyStr("x")>> >>) }
    \cup { PyDict(d) :
             d \in DictsOver(<<"error", "status", "response", "license_plate",
                               "owner_name">>, ResponseValues) }

InitExtract ==
    /\ arg \in ExtractInputs
    /\ ret = NoResult
    /\ called = FALSE
    /\ Idle

CallExtract ==
    /\ ~called
    /\ ret' = extract_vehicle_data(arg)
    /\ called' = TRUE
    /\ UNCHANGED <<arg, procVars, diskVars, run, clock>>

NextExtract == CallExtract

SpecExtract == InitExtract /\ [][NextExtract]_vars

(***************************************************************************)
(* format_vehicle_text on its own.                                         *)
(***************************************************************************)
FormatKeys == {"source", "vehicleId", "owner_name", "brand_model", "vehicle_type"}
FormatValues ==
    { None, PyStr(""), PyStr("null"), PyStr("NA"), PyStr("Not Available"),
      PyStr("ACTIVE"), PyNum("0") }

\* the records of n fields: distinct keys, in every order
RecordsOfLen(n) ==
    { r \in [1..n -> FormatKeys \X FormatValues] :
        \A i, j \in 1..n : i < j => r[i][1] # r[j][1] }

FormatInputs == { PyDict(r) : r \in UNION { RecordsOfLen(n) : n \in 0..MaxFields } }

InitFormat ==
    /\ arg \in FormatInputs
    /\ ret = <<>>
    /\ called = FALSE
    /\ Idle

CallFormat ==
    /\ ~called
    /\ \E source \in {"Live API", "Demo"} : ret' = format_vehicle_text(arg, source)
    /\ called' = TRUE
    /\ UNCHANGED <<arg, procVars, diskVars, run, clock>>

NextFormat == CallFormat

SpecFormat == InitFormat /\ [][NextFormat]_vars

(***************************************************************************)
(* main(): one process after another on the same reports directory.        *)
(***************************************************************************)
Flag_s == <<"-", "s">>
Flag_save == <<"-", "-", "s", "a", "v", "e">>
NumLower == <<"p", "b", "6", "5", "a", "m", "0", "0", "0", "8">>
NumUpper == <<"P", "B", "6", "5", "A", "M", "0", "0", "0", "8">>
NumBad == <<"i", "n", "v", "a", "l", "i", "d", "1", "2", "3">>
NumPadded == <<" ">> \o NumLower \o <<" ">>

\* sys.argv[1:]: the number alone, with either spelling of the save flag before
\* or after it, or no number at all
Argvs ==
    UNION { { <<n>>, <<Flag_s, n>>, <<n, Flag_save>> } : n \in {NumLower, NumUpper, NumBad} }
    \cup { <<>>, <<Flag_save>> }
\* what the user types at the prompt
StdinLines == {NumPadded, NumBad}
\* what the environment holds under RAPIDAPI_KEY after load_env()
EnvKeys == {None, PyStr(""), PyStr("k3y")}

\* str.strip()
RECURSIVE lstrip(_)
lstrip(str) ==
    IF str # <<>> /\ Head(str) \in Whitespace THEN lstrip(Tail(str)) ELSE str
RECURSIVE rstrip(_)
rstrip(str) ==
    IF str # <<>> /\ str[Len(str)] \in Whitespace
    THEN rstrip(SubSeq(str, 1, Len(str) - 1))
    ELSE str
strip(str) == rstrip(lstrip(str))

IsFlag(a) == a \in {Flag_s, Flag_save}
NotFlag(a) == ~IsFlag(a)

\* what json.loads can return for a 200 body
SampleRecord ==
    PyDict(<< <<"owner_name", PyStr("JOHN DOE")>>,
              <<"license_plate", PyStr("PB65AM0008")>> >>)
Envelope(response) ==
    PyDict(<< <<"status", PyStr("success")>>, <<"response", response>> >>)
ProviderBodies ==
    { Envelope(SampleRecord), Envelope(PyDict(<<>>)), Envelope(None),
      Envelope(PyStr("no record")), Envelope(PyNum("5")),
      Envelope(PyList(<< <<"0", PyStr("x")>> >>)),
      PyDict(<< <<"owner_name", PyStr("JOHN DOE")>> >>),
      PyDict(<< <<"message", PyStr("quota exceeded")>> >>),
      PyDict(<< <<"error", None>> >>),
      PyList(<<>>) }

Terminal == {"done", "exited", "crashed"}

\* datetime.now().strftime(...) at second resolution: the second a tick is in
strftime_minutes(t) == t \div (2 * TicksPerSecond)
strftime_seconds(t) == t \div TicksPerSecond

\* f"vehicle_{vehicle_no}_{timestamp}.txt"
FileName(no, timestamp) == <<"vehicle_", no, "_", timestamp, ".txt">>
\* os.path.join(REPORTS_DIR, filename)
FilePath(no, timestamp) == <<REPORTS_DIR, FileName(no, timestamp)>>

Init ==
    /\ arg = None
    /\ ret = None
    /\ called = FALSE
    /\ ProcInit
    /\ run = 1
    /\ clock = 0
    /\ dir_exists \in BOOLEAN
    /\ files = {}
    /\ writes = {}

\* the interpreter starts: load_env(), RAPIDAPI_KEY, sys.argv
Boot ==
    /\ pc = "boot"
    /\ RAPIDAPI_KEY' \in EnvKeys
    /\ argv' \in Argvs
    /\ pc' = "start"
    /\ UNCHANGED <<callVars, diskVars, run, clock, save_output, vehicle_no,
                   api_response, extracted, vehicle_data, error, output_text,
                   source_type, displayed, full_output, exit_status, exc, io_error,
                   requests>>

Exit1 ==
    /\ pc' = "exited"
    /\ exit_status' = 1

Raise(e) ==
    /\ pc' = "crashed"
    /\ exc' = e
    /\ exit_status' = 1

CheckKey ==
    /\ pc = "start"
    /\ IF ~Truthy(RAPIDAPI_KEY) THEN Exit1 ELSE pc' = "args" /\ UNCHANGED exit_status
    /\ UNCHANGED <<callVars, diskVars, run, clock, RAPIDAPI_KEY, argv, save_output,
                   vehicle_no, api_response, extracted, vehicle_data, error,
                   output_text, source_type, displayed, full_output, exc, io_error,
                   requests>>

ParseArgs ==
    /\ pc = "args"
    /\ LET save == \E i \in 1..Len(argv) : IsFlag(argv[i])
           args == IF save THEN SelectSeq(argv, NotFlag) ELSE argv
       IN /\ save_output' = save
          /\ IF Len(args) > 0
             THEN /\ vehicle_no' = strip(args[1])
                  /\ pc' = "validate"
                  /\ UNCHANGED <<exc, exit_status>>
             ELSE \/ /\ \E line \in StdinLines : vehicle_no' = strip(line)
                     /\ pc' = "validate"
                     /\ UNCHANGED <<exc, exit_status>>
                  \/ /\ Raise("EOFError")
                     /\ UNCHANGED vehicle_no
    /\ UNCHANGED <<callVars, diskVars, run, clock, RAPIDAPI_KEY, argv, api_response,
                   extracted, vehicle_data, error, output_text, source_type,
                   displayed, full_output, io_error, requests>>

Validate_NoExit ==
    /\ pc = "validate"
    /\ pc' = "fetch"
    /\ UNCHANGED <<callVars, diskVars, run, clock, RAPIDAPI_KEY, argv, save_output,
                   vehicle_no, api_response, extracted, vehicle_data, error,
                   output_text, source_type, displayed, full_output, exit_status, exc,
                   io_error, requests>>

Validate ==
    /\ pc = "validate"
    /\ IF ~validate_vehicle_number(vehicle_no)
       THEN Exit1
       ELSE pc' = "fetch" /\ UNCHANGED exit_status
    /\ UNCHANGED <<callVars, diskVars, run, clock, RAPIDAPI_KEY, argv, save_output,
                   vehicle_no, api_response, extracted, vehicle_data, error,
                   output_text, source_type, displayed, full_output, exc, io_error,
                   requests>>

\* fetch_from_api(vehicle_no): the request goes out, and what comes back is one
\* of the three returns
Fetch ==
    /\ pc = "fetch"
    /\ requests' = Append(requests, [vehicle_number |-> vehicle_no])
    /\ \/ \E body \in ProviderBodies : api_response' = body
       \/ api_response' = PyDict(<< <<"error", PyStr("HTTP 500")>>,
                                    <<"details", PyStr("Internal Server Error")>> >>)
       \/ \E msg \in {"timed out", "Expecting value: line 1 column 1 (char 0)"} :
              api_response' = PyDict(<< <<"error", PyStr(msg)>> >>)
    /\ pc' = "extract"
    /\ UNCHANGED <<callVars, diskVars, run, clock, RAPIDAPI_KEY, argv, save_output,
                   vehicle_no, extracted, vehicle_data, error, output_text,
                   source_type, displayed, full_output, exit_status, exc, io_error>>

Extract ==
    /\ pc = "extract"
    /\ extracted' = extract_vehicle_data(api_response)
    /\ vehicle_data' = extracted'.data
    /\ error' = extracted'.error
    /\ pc' = "render"
    /\ UNCHANGED <<callVars, diskVars, run, clock, RAPIDAPI_KEY, argv, save_output,
                   vehicle_no, api_response, output_text, source_type, displayed,
                   full_output, exit_status, exc, io_error, requests>>

\* the branch on `if vehicle_data:`; .items() exists on a dict only
Render ==
    /\ pc = "render"
    /\ IF Truthy(vehicle_data)
       THEN IF IsDict(vehicle_data)
            THEN /\ output_text' = format_vehicle_text(vehicle_data, "Live API")
                 /\ displayed' = output_text'
                 /\ source_type' = "Live API"
                 /\ pc' = "header"
                 /\ UNCHANGED <<vehicle_data, exc, exit_status>>
            ELSE /\ Raise("AttributeError")
                 /\ UNCHANGED <<vehicle_data, output_text, displayed, source_type>>
       ELSE /\ vehicle_data' = demo_data(vehicle_no)
            /\ output_text' = format_vehicle_text(vehicle_data', "Demo")
            /\ displayed' = output_text'
            /\ source_type' = "Demo"
            /\ pc' = "header"
            /\ UNCHANGED <<exc, exit_status>>
    /\ UNCHANGED <<callVars, diskVars, run, clock, RAPIDAPI_KEY, argv, save_output,
                   vehicle_no, api_response, extracted, error, full_output, io_error,
                   requests>>

\* `if save_output:` and the header of the saved text
Header ==
    /\ pc = "header"
    /\ IF save_output
       THEN /\ full_output' = [generated |-> strftime_seconds(clock),
                               vehicle |-> upper(vehicle_no),
                               source |-> source_type,
                               report |-> output_text]
            /\ pc' = "write"
            /\ UNCHANGED exit_status
       ELSE /\ pc' = "done"
            /\ exit_status' = 0
            /\ UNCHANGED full_output
    /\ UNCHANGED <<callVars, diskVars, run, clock, RAPIDAPI_KEY, argv, save_output,
                   vehicle_no, api_response, extracted, vehicle_data, error,
                   output_text, source_type, displayed, exc, io_error, requests>>

\* save_to_file(vehicle_no, full_output)
SaveToFile ==
    /\ pc = "write"
    /\ LET filepath == FilePath(vehicle_no, strftime_seconds(clock))
       IN \/ /\ ~dir_exists
             /\ Raise("OSError")
             /\ io_error' = "makedirs"
             /\ UNCHANGED diskVars
          \/ /\ dir_exists' = TRUE
             /\ files' = {f \in files : f.path # filepath}
                            \cup {[path |-> filepath, content |-> full_output]}
             /\ writes' = writes \cup {[path |-> filepath, run |-> run, at |-> clock,
                                        vehicle_no |-> vehicle_no]}
             /\ pc' = "done"
             /\ exit_status' = 0
             /\ UNCHANGED <<exc, io_error>>
          \/ /\ dir_exists' = TRUE
             /\ io_error' = "open"
             /\ pc' = "done"
             /\ exit_status' = 0
             /\ UNCHANGED <<exc, files, writes>>
    /\ UNCHANGED <<callVars, run, clock, RAPIDAPI_KEY, argv, save_output, vehicle_no,
                   api_response, extracted, vehicle_data, error, output_text,
                   source_type, displayed, full_output, requests>>

\* time passes; the clock is read at the header and in save_to_file only
Tick ==
    /\ pc \in {"header", "write"}
    /\ save_output
    /\ clock < MaxClock
    /\ clock' = clock + 1
    /\ UNCHANGED <<callVars, procVars, diskVars, run>>

\* the next invocation: a new process, the same directory
Relaunch ==
    /\ pc \in Terminal
    /\ run < MaxRuns
    /\ run' = run + 1
    /\ pc' = "boot"
    /\ RAPIDAPI_KEY' = None
    /\ argv' = <<>>
    /\ save_output' = FALSE
    /\ vehicle_no' = <<>>
    /\ api_response' = None
    /\ extracted' = NoResult
    /\ vehicle_data' = None
    /\ error' = None
    /\ output_text' = <<>>
    /\ source_type' = ""
    /\ displayed' = <<>>
    /\ full_output' = NoReport
    /\ exit_status' = -1
    /\ exc' = "none"
    /\ io_error' = "none"
    /\ requests' = <<>>
    /\ UNCHANGED <<callVars, diskVars, clock>>

Next ==
    \/ Boot
    \/ CheckKey
    \/ ParseArgs
    \/ Validate
    \/ Fetch
    \/ Extract
    \/ Render
    \/ Header
    \/ SaveToFile
    \/ Tick
    \/ Relaunch

Spec == Init /\ [][Next]_vars

(***************************************************************************)
(* Properties of the three functions.                                      *)
(***************************************************************************)
IsNone(v) == v.t = "null"

\* C1: extract_vehicle_data returns a pair (record, reason) with exactly one
\* of the two non-null, for every raw response.
C1_ExactlyOneNonNull ==
    called => (IsNone(ret.data) # IsNone(ret.error))

\* C2: a mapping with an `error` key always fails: the record is null, the
\* reason is the value stored under `error`, and the return taken is the
\* error one, whatever other keys the mapping holds.
C2_ErrorKeyWins ==
    (called /\ arg.t = "dict" /\ \E i \in 1..Len(arg.items) : arg.items[i][1] = "error")
        => /\ IsNone(ret.data)
           /\ \E i \in 1..Len(arg.items) :
                  arg.items[i][1] = "error" /\ ret.error = arg.items[i][2]
           /\ ret.line = 96

\* an `error` key beside a complete success envelope and a flat record
C2_Witness ==
    /\ called
    /\ arg.t = "dict"
    /\ \E i, j, k, l \in 1..Len(arg.items) :
          /\ arg.items[i][1] = "error" /\ arg.items[i][2] = PyStr("failed")
          /\ arg.items[j] = <<"status", PyStr("success")>>
          /\ arg.items[k][1] = "response" /\ arg.items[k][2].t = "dict"
          /\ arg.items[l][1] = "owner_name"
    /\ ret.error = PyStr("failed")
    /\ IsNone(ret.data)

\* two letters A-Z, one or two digits, one or two letters A-Z, four digits,
\* and nothing else
IsPlate(str) ==
    \E n1 \in 1..2, n2 \in 1..2 :
        /\ Len(str) = 2 + n1 + n2 + 4
        /\ \A i \in 1..Len(str) :
              IF i <= 2 \/ (i > 2 + n1 /\ i <= 2 + n1 + n2)
              THEN str[i] \in AZ
              ELSE str[i] \in Digits

\* C6: validate_vehicle_number is true for exactly the strings whose
\* uppercased form is a plate with nothing before or after it.
C6_ValidateExact ==
    called => (ret = IsPlate(upper(arg)))

C7_Bookkeeping == {"id", "createdAt", "updatedAt", "vehicleId", "source", "latest_by"}
C7_Suppressed(value) ==
    \/ value.t = "null"
    \/ value.t = "str" /\ value.s \in {"", "null", "NA", "Not Available"}
C7_Shown(pair) == pair[1] \notin C7_Bookkeeping /\ ~C7_Suppressed(pair[2])
C7_IsField(line) == line.kind = "field"

\* C7: the output has no field line for a key whose value is None, "",
\* "null", "NA" or "Not Available", none for a bookkeeping key, and exactly
\* one line for every other key, in the record's iteration order.
C7_FieldLines ==
    called =>
        LET shown == SelectSeq(arg.items, C7_Shown)
            body == SelectSeq(ret, C7_IsField)
        IN /\ Len(ret) = Len(body) + 4
           /\ Len(body) = Len(shown)
           /\ \A i \in 1..Len(shown) :
                 /\ body[i].label = LabelOf(shown[i][1])
                 /\ body[i].text = <<StrOf(shown[i][2])>>

\* a record with a non-empty bookkeeping key, an "NA" value and a shown field
C7_Witness ==
    /\ called
    /\ \E i, j, k \in 1..Len(arg.items) :
          /\ arg.items[i] = <<"source", PyStr("ACTIVE")>>
          /\ arg.items[j] = <<"owner_name", PyStr("NA")>>
          /\ arg.items[k] = <<"vehicle_type", PyNum("0")>>
    /\ Len(SelectSeq(ret, C7_IsField)) = 1

(***************************************************************************)
(* Properties of main().                                                   *)
(***************************************************************************)
KeyPresent == Truthy(RAPIDAPI_KEY)
Rendered == pc \in {"header", "write", "done"}

\* C3: with the credential present and an identifier that passes validation,
\* every run ends normally with exit status zero and no uncaught exception,
\* whatever the provider returned.
C3_CompletesNormally ==
    (pc \in Terminal /\ KeyPresent /\ IsPlate(upper(vehicle_no)))
        => (pc = "done" /\ exit_status = 0 /\ exc = "none")

\* C4: the report shown is the normalized record's, labelled "Live API",
\* whenever extract_vehicle_data returned a record, and the placeholder's,
\* labelled "Demo", only when it returned none.
C4_LiveIffExtracted ==
    Rendered =>
        /\ ~IsNone(extracted.data)
              => /\ source_type = "Live API"
                 /\ displayed = format_vehicle_text(extracted.data, "Live API")
        /\ source_type = "Demo" => IsNone(extracted.data)

\* C5: the provider request is issued at most once in a run, and only after
\* the credential check and the identifier validation have passed; a run
\* without the credential or with an invalid identifier ends with a non-zero
\* status and no request.
C5_FetchGated ==
    /\ Len(requests) <= 1
    /\ requests # <<>>
          => /\ KeyPresent
             /\ IsPlate(upper(vehicle_no))
             /\ pc \in {"extract", "render", "header", "write", "done", "crashed"}
    /\ (pc \in Terminal /\ (~KeyPresent \/ ~IsPlate(upper(vehicle_no))))
          => (exit_status # 0 /\ requests = <<>>)

\* a run that passed both checks, issued its one request and ended
C5_Witness ==
    /\ pc = "done"
    /\ KeyPresent
    /\ vehicle_no = NumLower
    /\ Len(requests) = 1
    /\ exit_status = 0

\* C8: an I/O failure in the save step, creating the directory or opening
\* the file, does not abort the program: main ends normally with status zero
\* and what was displayed stays as it was.
C8_SaveFailureNotFatal ==
    (pc \in Terminal /\ io_error # "none")
        => (pc = "done" /\ exit_status = 0 /\ exc = "none" /\ displayed = output_text)

\* C9: every downstream use of an accepted identifier carries its uppercased
\* form: the request body, the placeholder's license_plate, the header's
\* Vehicle line and the file name.
C9_UppercasedEverywhere ==
    /\ \A i \in 1..Len(requests) : requests[i].vehicle_number = upper(vehicle_no)
    /\ source_type = "Demo" =>
          DictGet(vehicle_data, "license_plate") = PyChars(upper(vehicle_no))
    /\ full_output # NoReport => full_output.vehicle = upper(vehicle_no)
    /\ \A w \in writes : w.run = run => w.path[2][2] = upper(vehicle_no)

====
